---- MODULE Spec2Model ----
(***************************************************************************)
(* Android backend of glutin: src/api/android/mod.rs.                      *)
(*                                                                         *)
(* A Window owns an EGL context, a winit window (the event source) and a   *)
(* Cell<bool> `stopped`.  Events pulled through the Window's iterators go  *)
(* through handle_event, which releases the EGL surface on Suspended(true) *)
(* and re-creates it on Suspended(false).  The GlContext operations are    *)
(* guarded by `stopped`.                                                   *)
(***************************************************************************)
EXTENDS Integers, Sequences, FiniteSets, TLC

\* Spec runs every operation to completion (one thread);  SpecThreads runs
\* handle_event and the GlContext calls step by step on two threads.

\* ------------------------------------------------------------------ bounds
\* Number of Window objects that can be constructed.
MaxWindows == 2
\* Total number of events pulled from the winit event sources.
MaxEvents == 3

\* ------------------------------------------------------- native window handles
\* What android_glue::get_native_window() can return: a null pointer, or a
\* pointer to the activity's ANativeWindow.  The code only tests the pointer
\* for null and passes it on; it never compares two handles.
NullWindow == "null"
Handles == {NullWindow, "window"}

Windows == 1..MaxWindows

\* ------------------------------------------------------------------ events
\* winit::Event values: Suspended(bool), and Focused(bool) standing for every
\* other variant (it also carries a bool, which handle_event must ignore).
Suspended(b) == [type |-> "Suspended", arg |-> b]
Focused(b) == [type |-> "Focused", arg |-> b]
Events == {Suspended(TRUE), Suspended(FALSE), Focused(TRUE)}

\* Option<winit::Event>: None is <<>>, Some(e) is <<e>>.
None == <<>>
Some(e) == <<e>>

\* ------------------------------------------------------------------ state
VARIABLES
    windows,        \* the Window objects: [Windows -> Window record]
    native_window,  \* what android_glue::get_native_window() returns now
    wakeups,        \* number of android_glue::wake_event_loop() calls made
    pulled,         \* per Window, the events its winit iterator has yielded
    delivered,      \* per Window, the events its iterators returned to the caller
    last,           \* the API call that returned last and what it returned
                    \* (NoCall while the render thread is inside a call)
    ev,             \* the event-loop thread: its position inside handle_event
    rt,             \* the render thread: its position inside a GlContext call
    headless        \* whether the HeadlessContext has been constructed

vars ==
    <<windows, native_window, wakeups, pulled, delivered, last, ev, rt, headless>>

\* A Window that has not been constructed.
NoWindow ==
    [alive |-> FALSE, stopped |-> FALSE, surface_bound |-> FALSE,
     surface_window |-> NullWindow, egl_calls |-> <<>>]

NoCall ==
    [op |-> "none", w |-> 0, stopped |-> FALSE, ret |-> "none", prim |-> "none",
     delegated |-> FALSE, overlapped |-> FALSE]

EvIdle == [pc |-> "idle", w |-> 0, event |-> Focused(TRUE), nw |-> NullWindow]
RtIdle == [pc |-> "idle", w |-> 0, op |-> "none", stopped |-> FALSE, overlapped |-> FALSE]

\* ------------------------------------------------- the EGL context (external)
\* EglContext::finish(native_window): the context is created with its window
\* surface bound to native_window.
egl_finish(win, nw) ==
    [win EXCEPT !.surface_bound = TRUE, !.surface_window = nw]

\* EglContext::on_surface_destroyed(): the surface binding is released, the
\* logical context stays.
release_surface(win) ==
    [win EXCEPT !.surface_bound = FALSE,
                !.egl_calls = Append(@, "release_surface")]

\* EglContext::on_surface_created(native_window): a surface is created for
\* the handle it is given and bound.
bind_to_surface(win, nw) ==
    [win EXCEPT !.surface_bound = TRUE, !.surface_window = nw,
                !.egl_calls = Append(@, "bind_to_surface")]

\* ------------------------------------------------------------ Window::new
\* Mutant: Window::new without its null check.
new_native_window_ok_always(nw) == TRUE

\* The null check of Window::new on the handle android_glue offers.
new_native_window_ok(nw) == nw # NullWindow

\* Window::new: eglOk is whether EglContext::new(..).finish(..) succeeds.
Window_new(nw, eglOk) ==
    IF ~new_native_window_ok(nw)
    THEN [ret |-> "OsError", delegated |-> FALSE, window |-> NoWindow]
    ELSE IF ~eglOk
    THEN [ret |-> "CreationError", delegated |-> TRUE, window |-> NoWindow]
    ELSE [ret |-> "Ok", delegated |-> TRUE,
          window |-> egl_finish([NoWindow EXCEPT !.alive = TRUE,
                                                 !.stopped = FALSE], nw)]

\* ------------------------------------------------- suspend / resume handling
\* Mutant: a guard of on_surface_destroyed that always passes.
destroyed_guard_always(win) == TRUE

\* Mutant: the guard of on_surface_destroyed with its negation lost.
destroyed_guard_inverted(win) == win.stopped

\* The guard of on_surface_destroyed and the store it makes.
destroyed_guard(win) == ~win.stopped
set_stopped(win, b) == [win EXCEPT !.stopped = b]

\* Mutant: on_surface_destroyed without its guard.
on_surface_destroyed_unguarded(win) ==
    release_surface(set_stopped(win, TRUE))

\* Window::on_surface_destroyed
on_surface_destroyed(win) ==
    IF destroyed_guard(win)
    THEN release_surface(set_stopped(win, TRUE))
    ELSE win

\* Mutant: a guard of on_surface_created that always passes.
created_guard_always(win) == TRUE

\* The guard of on_surface_created.
created_guard(win) == win.stopped

\* Mutant: on_surface_created without its guard.
on_surface_created_unguarded(win, nw) ==
    [window |-> bind_to_surface(set_stopped(win, FALSE), nw), wakes |-> 1]

\* Mutant: on_surface_created that re-binds the surface and leaves the flag.
on_surface_created_keeps_flag(win, nw) ==
    IF win.stopped
    THEN [window |-> bind_to_surface(win, nw), wakes |-> 1]
    ELSE [window |-> win, wakes |-> 0]

\* Window::on_surface_created: nw is what get_native_window() returns.
\* wakes is the number of wake_event_loop() calls made.
on_surface_created(win, nw) ==
    IF created_guard(win)
    THEN [window |-> bind_to_surface(set_stopped(win, FALSE), nw), wakes |-> 1]
    ELSE [window |-> win, wakes |-> 0]

\* Mutant: handle_event that acts on the bool of any event, not only of
\* Suspended.
handle_event_any_bool(win, event, nw) ==
    LET r == IF event.arg
             THEN [window |-> on_surface_destroyed(win), wakes |-> 0]
             ELSE on_surface_created(win, nw)
    IN  [window |-> r.window, wakes |-> r.wakes, ret |-> Some(event)]

\* Mutant: handle_event that swallows the notifications it acts on.
handle_event_filter(win, event, nw) ==
    LET r == IF event.type = "Suspended"
             THEN IF event.arg
                  THEN [window |-> on_surface_destroyed(win), wakes |-> 0]
                  ELSE on_surface_created(win, nw)
             ELSE [window |-> win, wakes |-> 0]
    IN  [window |-> r.window, wakes |-> r.wakes,
         ret |-> IF event.type = "Suspended" THEN None ELSE Some(event)]

\* Window::handle_event
handle_event(win, event, nw) ==
    LET r == IF event.type = "Suspended"
             THEN IF event.arg
                  THEN [window |-> on_surface_destroyed(win), wakes |-> 0]
                  ELSE on_surface_created(win, nw)
             ELSE [window |-> win, wakes |-> 0]
    IN  [window |-> r.window, wakes |-> r.wakes, ret |-> Some(event)]

\* Mutant: the event is handled by every Window alive.
DispatchAll(ws, w, event, nw) ==
    [v \in Windows |->
        IF ws[v].alive THEN handle_event(ws[v], event, nw).window ELSE ws[v]]

\* The iterators hold `window: &Window` and call self.window.handle_event:
\* the Window objects after an event pulled through w's iterator is handled.
Dispatch(ws, w, event, nw) ==
    [ws EXCEPT ![w] = handle_event(ws[w], event, nw).window]

\* --------------------------------------------------------------- GlContext
\* `stopped` is the value self.stopped.get() returned, prim the result the
\* EGL context gives if it is called.  In the record returned, delegated says
\* whether the EGL context was called and prim what it answered ("none" when
\* it was not called).

\* Mutant: make_current without its test of `stopped`.
make_current_unguarded(stopped, prim) ==
    [ret |-> prim, delegated |-> TRUE, prim |-> prim]

\* Window::make_current
make_current(stopped, prim) ==
    IF ~stopped
    THEN [ret |-> prim, delegated |-> TRUE, prim |-> prim]
    ELSE [ret |-> "ContextLost", delegated |-> FALSE, prim |-> "none"]

\* Mutant: swap_buffers without its test of `stopped`.
swap_buffers_unguarded(stopped, prim) ==
    [ret |-> prim, delegated |-> TRUE, prim |-> prim]

\* Window::swap_buffers
swap_buffers(stopped, prim) ==
    IF ~stopped
    THEN [ret |-> prim, delegated |-> TRUE, prim |-> prim]
    ELSE [ret |-> "ContextLost", delegated |-> FALSE, prim |-> "none"]

\* Mutant: is_current without its test of `stopped`.
is_current_unguarded(stopped, prim) ==
    [ret |-> prim, delegated |-> TRUE, prim |-> prim]

\* Window::is_current
is_current(stopped, prim) ==
    IF stopped
    THEN [ret |-> "false", delegated |-> FALSE, prim |-> "none"]
    ELSE [ret |-> prim, delegated |-> TRUE, prim |-> prim]

\* Mutant: get_proc_address with the test of `stopped` the other calls make.
get_proc_address_guarded(stopped, prim) ==
    IF stopped
    THEN [ret |-> "null_ptr", delegated |-> FALSE, prim |-> "none"]
    ELSE [ret |-> prim, delegated |-> TRUE, prim |-> prim]

\* Window::get_proc_address: it does not read `stopped`.
get_proc_address(stopped, prim) ==
    [ret |-> prim, delegated |-> TRUE, prim |-> prim]

\* The results the EGL context can give to each operation.
PrimResults(op) ==
    IF op = "is_current" THEN {"true", "false"}
    ELSE IF op = "get_proc_address" THEN {"fn_ptr", "null_ptr"}
    ELSE {"Ok", "ContextLost"}

GlOps == {"make_current", "swap_buffers", "is_current"}

GlCall(op, stopped, prim) ==
    IF op = "make_current" THEN make_current(stopped, prim)
    ELSE IF op = "swap_buffers" THEN swap_buffers(stopped, prim)
    ELSE is_current(stopped, prim)

\* ---------------------------------------------------------- HeadlessContext
\* HeadlessContext::new: eglOk is whether EglContext::new(..) and
\* finish_pbuffer(..) both succeed.  No native window is involved.
HeadlessContext_new(eglOk) ==
    IF eglOk
    THEN [ret |-> "Ok", constructed |-> TRUE]
    ELSE [ret |-> "CreationError", constructed |-> FALSE]

\* Mutant: a HeadlessContext that loses its context while a Window is stopped.
headless_make_current_guarded(prim) ==
    IF \E w \in Windows : windows[w].stopped
    THEN [ret |-> "ContextLost", delegated |-> FALSE, prim |-> "none"]
    ELSE [ret |-> prim, delegated |-> TRUE, prim |-> prim]

\* impl GlContext for HeadlessContext: every operation is self.0.<operation>.
headless_make_current(prim) ==
    [ret |-> prim, delegated |-> TRUE, prim |-> prim]

headless_is_current(prim) ==
    [ret |-> prim, delegated |-> TRUE, prim |-> prim]

headless_get_proc_address(prim) ==
    [ret |-> prim, delegated |-> TRUE, prim |-> prim]

headless_swap_buffers(prim) ==
    [ret |-> prim, delegated |-> TRUE, prim |-> prim]

HeadlessOps == {"make_current", "is_current", "get_proc_address", "swap_buffers"}

HeadlessGlCall(op, prim) ==
    IF op = "make_current" THEN headless_make_current(prim)
    ELSE IF op = "is_current" THEN headless_is_current(prim)
    ELSE IF op = "get_proc_address" THEN headless_get_proc_address(prim)
    ELSE headless_swap_buffers(prim)

\* ------------------------------------------------------------------ helpers
NumAlive == Cardinality({w \in Windows : windows[w].alive})
RECURSIVE SumLen(_, _)
SumLen(f, S) ==
    IF S = {} THEN 0
    ELSE LET x == CHOOSE y \in S : TRUE IN Len(f[x]) + SumLen(f, S \ {x})
NumPulled == SumLen(pulled, Windows)

\* ------------------------------------------------------------------ Init
Init ==
    /\ windows = [w \in Windows |-> NoWindow]
    /\ native_window = NullWindow
    /\ wakeups = 0
    /\ pulled = [w \in Windows |-> <<>>]
    /\ delivered = [w \in Windows |-> <<>>]
    /\ last = NoCall
    /\ ev = EvIdle
    /\ rt = RtIdle
    /\ headless = FALSE

\* ------------------------------------------------------------------ actions
\* The environment replaces (or revokes) the native window.
EnvNativeWindow ==
    /\ \E h \in Handles : h # native_window /\ native_window' = h
    /\ UNCHANGED <<windows, wakeups, pulled, delivered, last, ev, rt, headless>>

\* Window::new; the next Window object is the one constructed.
New ==
    /\ ev.pc = "idle"
    /\ NumAlive < MaxWindows
    /\ \E eglOk \in BOOLEAN :
         LET w == NumAlive + 1
             r == Window_new(native_window, eglOk)
         IN  /\ windows' = [windows EXCEPT ![w] = r.window]
             /\ last' = [NoCall EXCEPT !.op = "new", !.w = w, !.ret = r.ret,
                                       !.delegated = r.delegated]
    /\ UNCHANGED <<native_window, wakeups, pulled, delivered, ev, rt, headless>>

\* WaitEventsIterator::next / PollEventsIterator::next on Window w, when the
\* winit iterator yields an event: handle_event runs to completion and its
\* result is returned to the caller.
IteratorNext(w) ==
    /\ ev.pc = "idle" /\ rt.pc = "idle"
    /\ windows[w].alive
    /\ NumPulled < MaxEvents
    /\ \E event \in Events :
         LET r == handle_event(windows[w], event, native_window)
         IN  /\ pulled' = [pulled EXCEPT ![w] = Append(@, event)]
             /\ windows' = Dispatch(windows, w, event, native_window)
             /\ wakeups' = wakeups + r.wakes
             /\ delivered' = [delivered EXCEPT ![w] = @ \o r.ret]
    /\ UNCHANGED <<native_window, last, ev, rt, headless>>

\* The same, when the winit iterator is exhausted: None is returned.
IteratorNextNone(w) ==
    /\ ev.pc = "idle"
    /\ windows[w].alive
    /\ delivered' = [delivered EXCEPT ![w] = @ \o None]
    /\ UNCHANGED <<windows, native_window, wakeups, pulled, last, ev, rt, headless>>

\* make_current / swap_buffers / is_current on Window w, run to completion.
GlContextCall(w) ==
    /\ ev.pc = "idle" /\ rt.pc = "idle"
    /\ windows[w].alive
    /\ \E op \in GlOps : \E prim \in PrimResults(op) :
         LET r == GlCall(op, windows[w].stopped, prim)
         IN  last' = [op |-> op, w |-> w, stopped |-> windows[w].stopped,
                      ret |-> r.ret, prim |-> r.prim,
                      delegated |-> r.delegated, overlapped |-> FALSE]
    /\ UNCHANGED <<windows, native_window, wakeups, pulled, delivered, ev, rt, headless>>

\* get_proc_address on Window w.
GetProcAddress(w) ==
    /\ ev.pc = "idle" /\ rt.pc = "idle"
    /\ windows[w].alive
    /\ \E prim \in PrimResults("get_proc_address") :
         LET r == get_proc_address(windows[w].stopped, prim)
         IN  last' = [op |-> "get_proc_address", w |-> w,
                      stopped |-> windows[w].stopped,
                      ret |-> r.ret, prim |-> r.prim,
                      delegated |-> r.delegated, overlapped |-> FALSE]
    /\ UNCHANGED <<windows, native_window, wakeups, pulled, delivered, ev, rt, headless>>

\* HeadlessContext::new
HeadlessNew ==
    /\ ev.pc = "idle" /\ rt.pc = "idle"
    /\ ~headless
    /\ \E eglOk \in BOOLEAN :
         LET r == HeadlessContext_new(eglOk)
         IN  /\ headless' = r.constructed
             /\ last' = [NoCall EXCEPT !.op = "headless_new", !.ret = r.ret,
                                       !.delegated = TRUE]
    /\ UNCHANGED <<windows, native_window, wakeups, pulled, delivered, ev, rt>>

\* A GlContext operation on the HeadlessContext (w is 0: it is no Window).
HeadlessCall ==
    /\ ev.pc = "idle" /\ rt.pc = "idle"
    /\ headless
    /\ \E op \in HeadlessOps : \E prim \in PrimResults(op) :
         LET r == HeadlessGlCall(op, prim)
         IN  last' = [op |-> "headless_" \o op, w |-> 0, stopped |-> FALSE,
                      ret |-> r.ret, prim |-> r.prim,
                      delegated |-> r.delegated, overlapped |-> FALSE]
    /\ UNCHANGED <<windows, native_window, wakeups, pulled, delivered, ev, rt,
                   headless>>

Next ==
    \/ EnvNativeWindow
    \/ New
    \/ \E w \in Windows : IteratorNext(w)
    \/ \E w \in Windows : IteratorNextNone(w)
    \/ \E w \in Windows : GlContextCall(w)
    \/ \E w \in Windows : GetProcAddress(w)
    \/ HeadlessNew
    \/ HeadlessCall

Spec == Init /\ [][Next]_vars


\* ------------------------------------------------ the two threads, step by step
\* Window is Send + Sync: a render thread may run a GlContext call while the
\* event-loop thread is inside handle_event.  Each access to `stopped`, each
\* EGL call and each android_glue call is one step.

\* The positions of the event-loop thread inside on_surface_destroyed /
\* on_surface_created, after the guard and before the function returns.
InTransition == {"destroy_set", "destroy_egl",
                 "create_set", "create_native", "create_egl", "create_wake"}

\* The render thread's record once the event-loop thread starts a transition
\* on Window w: a call on w that has read `stopped` and not finished overlaps it.
MarkOverlap(w) ==
    IF rt.pc = "checked" /\ rt.w = w THEN [rt EXCEPT !.overlapped = TRUE] ELSE rt

\* The iterator pulls an event and enters handle_event.
EvPull(w) ==
    /\ ev.pc = "idle"
    /\ windows[w].alive
    /\ NumPulled < MaxEvents
    /\ \E event \in Events :
         /\ pulled' = [pulled EXCEPT ![w] = Append(@, event)]
         /\ ev' = [pc |-> "handle", w |-> w, event |-> event, nw |-> NullWindow]
    /\ UNCHANGED <<windows, native_window, wakeups, delivered, last, rt, headless>>

\* handle_event's match, and the guard of the function it calls.
EvHandle ==
    /\ ev.pc = "handle"
    /\ LET win == windows[ev.w]
           to == IF ev.event.type = "Suspended"
                 THEN IF ev.event.arg
                      THEN IF destroyed_guard(win) THEN "destroy_set" ELSE "return"
                      ELSE IF created_guard(win) THEN "create_set" ELSE "return"
                 ELSE "return"
       IN  /\ ev' = [ev EXCEPT !.pc = to]
           /\ rt' = IF to \in InTransition THEN MarkOverlap(ev.w) ELSE rt
    /\ UNCHANGED <<windows, native_window, wakeups, pulled, delivered, last, headless>>

\* Mutant: on_surface_destroyed that releases the surface before it sets the
\* flag.
EvDestroySet_ReleaseFirst ==
    /\ ev.pc = "destroy_set"
    /\ windows' = [windows EXCEPT ![ev.w] = release_surface(@)]
    /\ ev' = [ev EXCEPT !.pc = "destroy_egl"]
    /\ UNCHANGED <<native_window, wakeups, pulled, delivered, last, rt, headless>>

\* self.stopped.set(true)
EvDestroySet ==
    /\ ev.pc = "destroy_set"
    /\ windows' = [windows EXCEPT ![ev.w] = set_stopped(@, TRUE)]
    /\ ev' = [ev EXCEPT !.pc = "destroy_egl"]
    /\ UNCHANGED <<native_window, wakeups, pulled, delivered, last, rt, headless>>

\* self.context.on_surface_destroyed()
EvDestroyEgl ==
    /\ ev.pc = "destroy_egl"
    /\ windows' = [windows EXCEPT ![ev.w] = release_surface(@)]
    /\ ev' = [ev EXCEPT !.pc = "return"]
    /\ UNCHANGED <<native_window, wakeups, pulled, delivered, last, rt, headless>>

\* self.stopped.set(false)
EvCreateSet ==
    /\ ev.pc = "create_set"
    /\ windows' = [windows EXCEPT ![ev.w] = set_stopped(@, FALSE)]
    /\ ev' = [ev EXCEPT !.pc = "create_native"]
    /\ UNCHANGED <<native_window, wakeups, pulled, delivered, last, rt, headless>>

\* let native_window = android_glue::get_native_window()
EvCreateNative ==
    /\ ev.pc = "create_native"
    /\ ev' = [ev EXCEPT !.pc = "create_egl", !.nw = native_window]
    /\ UNCHANGED <<windows, native_window, wakeups, pulled, delivered, last, rt, headless>>

\* self.context.on_surface_created(native_window)
EvCreateEgl ==
    /\ ev.pc = "create_egl"
    /\ windows' = [windows EXCEPT ![ev.w] = bind_to_surface(@, ev.nw)]
    /\ ev' = [ev EXCEPT !.pc = "create_wake"]
    /\ UNCHANGED <<native_window, wakeups, pulled, delivered, last, rt, headless>>

\* android_glue::wake_event_loop()
EvCreateWake ==
    /\ ev.pc = "create_wake"
    /\ wakeups' = wakeups + 1
    /\ ev' = [ev EXCEPT !.pc = "return"]
    /\ UNCHANGED <<windows, native_window, pulled, delivered, last, rt, headless>>

\* handle_event returns and the iterator hands its result to the caller.
EvReturn ==
    /\ ev.pc = "return"
    /\ delivered' = [delivered EXCEPT
                       ![ev.w] = @ \o handle_event(windows[ev.w], ev.event, ev.nw).ret]
    /\ ev' = EvIdle
    /\ UNCHANGED <<windows, native_window, wakeups, pulled, last, rt, headless>>

\* The render thread enters a GlContext call on w and reads `stopped`.
RtRead(w) ==
    /\ rt.pc = "idle"
    /\ windows[w].alive
    /\ \E op \in GlOps :
         rt' = [pc |-> "checked", w |-> w, op |-> op,
                stopped |-> windows[w].stopped,
                overlapped |-> (ev.w = w /\ ev.pc \in InTransition)]
    /\ last' = NoCall
    /\ UNCHANGED <<windows, native_window, wakeups, pulled, delivered, ev, headless>>

\* The render thread acts on the value it read: it calls the EGL context or
\* returns without calling it.
RtFinish ==
    /\ rt.pc = "checked"
    /\ \E prim \in PrimResults(rt.op) :
         LET r == GlCall(rt.op, rt.stopped, prim)
         IN  last' = [op |-> rt.op, w |-> rt.w, stopped |-> rt.stopped,
                      ret |-> r.ret, prim |-> r.prim,
                      delegated |-> r.delegated, overlapped |-> rt.overlapped]
    /\ rt' = RtIdle
    /\ UNCHANGED <<windows, native_window, wakeups, pulled, delivered, ev, headless>>

NextThreads ==
    \/ EnvNativeWindow
    \/ New
    \/ \E w \in Windows : IteratorNextNone(w)
    \/ \E w \in Windows : EvPull(w)
    \/ EvHandle
    \/ EvDestroySet
    \/ EvDestroyEgl
    \/ EvCreateSet
    \/ EvCreateNative
    \/ EvCreateEgl
    \/ EvCreateWake
    \/ EvReturn
    \/ \E w \in Windows : RtRead(w)
    \/ RtFinish

SpecThreads == Init /\ [][NextThreads]_vars


\* =================================================================== claims
RenderOps == {"make_current", "swap_buffers"}

\* The value carried by the last Suspended event of a sequence of events;
\* FALSE when there is none.
LastNotification(s) ==
    LET idx == {i \in 1..Len(s) : s[i].type = "Suspended"}
    IN  IF idx = {} THEN FALSE
        ELSE s[CHOOSE i \in idx : \A j \in idx : j <= i].arg

\* The step is the handling of `event`, pulled through w's iterator.
Handled(w, event) == pulled'[w] = Append(pulled[w], event)

\* The surface of win has been released and no re-bind has been made since.
Unbound(win) ==
    /\ win.egl_calls # <<>>
    /\ win.egl_calls[Len(win.egl_calls)] = "release_surface"

\* C1: make_current() and swap_buffers() return ContextLost without calling
\* the EGL context when stopped is true; when stopped is false they call it
\* and return exactly its result.
C1_RenderingGuarded ==
    [][\A w \in Windows :
         (last' # last /\ last'.w = w /\ last'.op \in RenderOps)
         => IF windows[w].stopped
            THEN last'.ret = "ContextLost" /\ ~last'.delegated
            ELSE last'.delegated /\ last'.ret = last'.prim]_vars

C1_Witness ==
    /\ last.op = "swap_buffers"
    /\ last.stopped /\ windows[last.w].stopped
    /\ last.ret = "ContextLost"
    /\ ~last.delegated

\* C2: a Window is stopped exactly when the last Suspended notification it
\* handled carried true; it is active when that carried false or when it has
\* handled none since it was constructed.
C2_StoppedIsLastNotification ==
    \A w \in Windows :
        windows[w].alive => windows[w].stopped = LastNotification(pulled[w])

\* new -> Suspended(true) -> Suspended(false), then make_current() is passed
\* to the EGL context.
C2_Witness ==
    \E w \in Windows :
        /\ pulled[w] = <<Suspended(TRUE), Suspended(FALSE)>>
        /\ ~windows[w].stopped
        /\ last.op = "make_current" /\ last.w = w /\ last.delegated

\* C3: handling Suspended(true) always ends stopped, and when the Window was
\* already stopped it changes nothing: no field of the Window, no call on the
\* EGL context, no wakeup.  So any number of further Suspended(true) leave
\* the state the first one produced.
C3_SuspendIdempotent ==
    [][\A w \in Windows :
         Handled(w, Suspended(TRUE))
         => /\ windows'[w].stopped
            /\ windows[w].stopped
               => (windows'[w] = windows[w] /\ wakeups' = wakeups)]_vars

\* Suspended(true) handled twice in a row by a Window that was active.
C3_Witness ==
    \E w \in Windows :
        /\ pulled[w] = <<Suspended(TRUE), Suspended(TRUE)>>
        /\ windows[w].egl_calls = <<"release_surface">>

\* C4: handling Suspended(false) always ends active, and when the Window was
\* already active it changes nothing: no field of the Window, no re-bind, no
\* wakeup.  So any number of further Suspended(false) leave the state the
\* first one produced.
C4_ResumeIdempotent ==
    [][\A w \in Windows :
         Handled(w, Suspended(FALSE))
         => /\ ~windows'[w].stopped
            /\ ~windows[w].stopped
               => (windows'[w] = windows[w] /\ wakeups' = wakeups)]_vars

\* A genuine resume followed by a second Suspended(false).
C4_Witness ==
    \E w \in Windows :
        /\ pulled[w] = <<Suspended(TRUE), Suspended(FALSE), Suspended(FALSE)>>
        /\ windows[w].egl_calls = <<"release_surface", "bind_to_surface">>
        /\ wakeups = 1

\* C5: is_current() returns false when stopped is true, whatever the EGL
\* context would answer, and the EGL context's answer when stopped is false.
C5_IsCurrentGuarded ==
    [][\A w \in Windows :
         (last' # last /\ last'.w = w /\ last'.op = "is_current")
         => IF windows[w].stopped
            THEN last'.ret = "false"
            ELSE last'.delegated /\ last'.ret = last'.prim]_vars

C5_Witness ==
    /\ last.op = "is_current"
    /\ windows[last.w].stopped
    /\ last.ret = "false"

\* C6: what the iterators have returned to the caller is exactly what the
\* winit iterators have yielded: every event once, unmodified, in order.
C6_ObserverNotFilter ==
    \A w \in Windows : delivered[w] = pulled[w]

C6_Witness ==
    \E w \in Windows :
        /\ Len(delivered[w]) = 3
        /\ \E i, j \in 1..3 :
             /\ i < j
             /\ delivered[w][i] = Suspended(TRUE)
             /\ delivered[w][j] = Focused(TRUE)

\* C7: between completed operations, stopped implies the surface is released
\* and not stopped implies the surface is bound to a non-null native window.
C7_SurfaceTracksStopped ==
    \A w \in Windows :
        windows[w].alive
        => /\ windows[w].stopped => ~windows[w].surface_bound
           /\ ~windows[w].stopped
              => (windows[w].surface_bound
                  /\ windows[w].surface_window # NullWindow)

\* The render thread hands a rendering call to the EGL context in this step.
RenderDelegated ==
    /\ rt.pc = "checked" /\ rt'.pc = "idle"
    /\ last'.op \in RenderOps
    /\ last'.delegated

\* C8 as stated: whatever the interleaving of the two threads, no rendering
\* call reaches the EGL context while its surface is released and not yet
\* re-bound.
C8_NoRenderOnReleasedSurface ==
    [][RenderDelegated => ~Unbound(windows[rt.w])]_vars

\* C8 amended: the same, for the rendering calls that do not overlap an
\* on_surface_destroyed / on_surface_created in progress on the same Window.
C8_NoRenderOnReleasedSurfaceUnlessOverlap ==
    [][(RenderDelegated /\ ~rt.overlapped) => ~Unbound(windows[rt.w])]_vars

\* A rendering call that overlapped nothing was passed to the EGL context of
\* a Window that has been suspended and resumed.
C8_Witness ==
    /\ last.op \in RenderOps /\ last.delegated /\ ~last.overlapped
    /\ windows[last.w].egl_calls = <<"release_surface", "bind_to_surface">>

C11_NewChecksNativeWindow ==
    [][(last' # last /\ last'.op = "new")
       => /\ native_window = NullWindow
             => (last'.ret = "OsError" /\ ~last'.delegated /\ windows' = windows)
          /\ last'.ret = "Ok"
             => (windows'[last'.w].alive /\ ~windows'[last'.w].stopped
                 /\ native_window # NullWindow)
          /\ last'.ret # "Ok" => windows' = windows]_vars

\* Window::new failed on a null native window after one Window had been
\* constructed: the second Window does not exist.
C11_Witness ==
    /\ last.op = "new" /\ last.w = 2 /\ last.ret = "OsError"
    /\ native_window = NullWindow
    /\ windows[1].alive /\ ~windows[1].stopped /\ ~windows[2].alive


\* The Suspended(false) events of a sequence that arrive after a
\* Suspended(true): the genuine Suspended -> Active transitions.
GenuineResumes(s) ==
    {i \in 1..Len(s) :
        s[i] = Suspended(FALSE) /\ LastNotification(SubSeq(s, 1, i - 1))}

\* The events of w whose handling has finished, and those whose handling has
\* reached the end of handle_event.
Completed(w) ==
    IF ev.pc # "idle" /\ ev.w = w
    THEN SubSeq(pulled[w], 1, Len(pulled[w]) - 1)
    ELSE pulled[w]
Handling(w) ==
    IF ev.pc = "return" /\ ev.w = w THEN pulled[w] ELSE Completed(w)

RECURSIVE SumResumes(_)
SumResumes(S) ==
    IF S = {} THEN 0
    ELSE LET w == CHOOSE x \in S : TRUE
         IN  Cardinality(GenuineResumes(Handling(w))) + SumResumes(S \ {w})

\* C12: wake_event_loop() is called once for every genuine Suspended ->
\* Active transition and never otherwise (not for a Suspended(false) that
\* finds the Window active, not for a Suspended(true)), and it is called
\* after the surface has been re-bound.  The count is compared at every
\* wakeup and every time handle_event reaches or leaves its end.
C12_WakeOncePerGenuineResume ==
    [][/\ wakeups' # wakeups
          => /\ wakeups' = wakeups + 1
             /\ ev.event = Suspended(FALSE)
             /\ ~windows[ev.w].stopped
             /\ windows[ev.w].egl_calls # <<>>
             /\ ~Unbound(windows[ev.w])
       /\ (wakeups' # wakeups \/ (ev'.pc # ev.pc /\ "return" \in {ev.pc, ev'.pc}))
          => wakeups' = SumResumes(Windows)']_vars

\* One genuine resume, then a Suspended(false) that found the Window active:
\* one wakeup.
C12_Witness ==
    \E w \in Windows :
        /\ ev.pc = "idle"
        /\ pulled[w] = <<Suspended(TRUE), Suspended(FALSE), Suspended(FALSE)>>
        /\ wakeups = 1


\* C13: get_proc_address() hands the name to the EGL context and returns its
\* answer whether the Window is stopped or not, and changes nothing of the
\* Window.
C13_GetProcAddressPassthrough ==
    [][\A w \in Windows :
         (last' # last /\ last'.w = w /\ last'.op = "get_proc_address")
         => /\ last'.delegated
            /\ last'.ret = last'.prim
            /\ last'.ret \in PrimResults("get_proc_address")
            /\ windows' = windows]_vars

\* get_proc_address resolved a symbol on a stopped Window.
C13_Witness ==
    /\ last.op = "get_proc_address"
    /\ last.stopped /\ windows[last.w].stopped
    /\ last.delegated /\ last.ret = "fn_ptr"


\* The operations of the HeadlessContext that C14 names, as `last` records them.
HeadlessRenderOps ==
    {"headless_make_current", "headless_swap_buffers", "headless_is_current"}

\* C14: the HeadlessContext has no suspend/resume transition: no event
\* handled by a Window changes it, and its make_current(), swap_buffers() and
\* is_current() always call the EGL context and return its result, whatever
\* notifications the Windows have handled.
C14_HeadlessNeverSuspended ==
    [][/\ (last' # last /\ last'.op \in HeadlessRenderOps)
          => (last'.delegated /\ last'.ret = last'.prim)
       /\ (pulled' # pulled) => (headless' = headless)]_vars

\* swap_buffers() of the HeadlessContext went to the EGL context while a
\* Window was stopped.
C14_Witness ==
    /\ headless
    /\ last.op = "headless_swap_buffers" /\ last.delegated /\ last.ret = "Ok"
    /\ \E w \in Windows :
         windows[w].stopped /\ pulled[w] = <<Suspended(FALSE), Suspended(TRUE)>>


\* C15: the calls a Window makes on its EGL context's surface alternate
\* release_surface, bind_to_surface, release_surface, ..., starting with
\* release_surface.
C15_ReleaseBindAlternate ==
    \A w \in Windows :
        \A i \in 1..Len(windows[w].egl_calls) :
            windows[w].egl_calls[i] =
                IF i % 2 = 1 THEN "release_surface" ELSE "bind_to_surface"

\* A Window suspended, resumed and suspended again.
C15_Witness ==
    \E w \in Windows :
        /\ windows[w].egl_calls =
               <<"release_surface", "bind_to_surface", "release_surface">>
        /\ windows[w].stopped

\* C16: handling an event that is not Suspended changes no Window (flag,
\* surface binding, calls made on the EGL context) and wakes nothing.
C16_OtherEventsChangeNothing ==
    [][\A w \in Windows : \A e \in Events :
         (e.type # "Suspended" /\ Handled(w, e))
         => (windows' = windows /\ wakeups' = wakeups)]_vars

\* A stopped Window handled Focused(true) and is still stopped, its surface
\* released once.
C16_Witness ==
    \E w \in Windows :
        /\ pulled[w] = <<Suspended(TRUE), Focused(TRUE)>>
        /\ delivered[w] = pulled[w]
        /\ windows[w].stopped
        /\ windows[w].egl_calls = <<"release_surface">>


\* The step returns `event` to the caller of w's iterator.
Delivered(w, event) == delivered'[w] = Append(delivered[w], event)

\* C17: when a Suspended(b) event is returned to the caller the transition
\* it asked for is complete: stopped = b, the surface released (b) or
\* re-bound (not b), so that make_current() returns ContextLost (b) or goes
\* to the EGL context (not b); and no event is pulled before the one before
\* it has been returned.
C17_TransitionBeforeDelivery ==
    [][/\ \A w \in Windows : \A b \in BOOLEAN :
            Delivered(w, Suspended(b))
            => /\ windows'[w] = windows[w]
               /\ windows[w].stopped = b
               /\ Unbound(windows[w]) = b
               /\ make_current(windows[w].stopped, "Ok").delegated = ~b
               /\ b => make_current(windows[w].stopped, "Ok").ret = "ContextLost"
       /\ pulled' # pulled => (ev.pc = "idle" /\ delivered = pulled)]_vars

\* The caller has been handed Suspended(true) and a make_current() made
\* after that, overlapping nothing, returned ContextLost.
C17_Witness ==
    \E w \in Windows :
        /\ ev.pc = "idle"
        /\ delivered[w] = <<Suspended(TRUE)>>
        /\ last.op = "make_current" /\ last.w = w /\ ~last.overlapped
        /\ last.ret = "ContextLost"

\* The event-loop thread is inside on_surface_destroyed of Window w.
Suspending(w) == ev.w = w /\ ev.pc \in {"destroy_set", "destroy_egl"}

\* C18: on_surface_destroyed sets stopped before it tells the EGL context to
\* release the surface: the release is made with stopped already true, and at
\* no step of the suspend transition is the surface released while stopped is
\* still false.
C18_FlagBeforeRelease ==
    [][\A w \in Windows :
         /\ windows'[w].egl_calls =
                Append(windows[w].egl_calls, "release_surface")
            => (windows[w].stopped /\ windows'[w].stopped)
         /\ (Suspending(w) \/ Suspending(w)')
            => (~windows'[w].surface_bound => windows'[w].stopped)]_vars

\* The intermediate step: stopped is set and the surface is not yet released.
C18_Witness ==
    \E w \in Windows :
        /\ ev.w = w /\ ev.pc = "destroy_egl"
        /\ windows[w].stopped
        /\ windows[w].surface_bound

====
